---- MODULE Spec2Model ----
(***************************************************************************)
(* Wardrobe door and liner calculator (src/app.py).                        *)
(*                                                                         *)
(* The dimensioning engine calculate_for_row is a pure function of one     *)
(* row of the openings table.  The model holds one row of the table, the   *)
(* record calculate_for_row returns for it, the layout of the diagram      *)
(* draw_wardrobe_diagram draws of it, and the position of the script.      *)
(*                                                                         *)
(* Numbers.  The table's numeric cells are integers; the code converts     *)
(* them with float() and divides, so intermediate values are rationals.    *)
(* A rational is the pair <<n, d>> with d > 0.  Every rational the code    *)
(* rounds here has a denominator of at most 10 and a magnitude far below   *)
(* 2^53, so binary floating point rounds it as the exact value is rounded. *)
(* Columns produced by round(x, 1) are held in tenths of a millimetre.     *)
(***************************************************************************)
EXTENDS Integers, Sequences, FiniteSets, TLC

VARIABLES row, calcs, fig, pc

vars == <<row, calcs, fig, pc>>

(***************************************************************************)
(* System constants                                                        *)
(***************************************************************************)
BOTTOM_LINER_THICKNESS == 36

SIDE_LINER_THICKNESS == 18

TRACKSET_TOLERANCE == 54

MAX_DOOR_HEIGHT == 2431

MAX_DROPDOWN_LIMIT == 400

FIXED_DOOR_HEIGHT == 2223

FIXED_DOOR_WIDTH_OPTIONS == {610, 762, 914}

OVERLAP_TOLERANCES == (2 :> 75) @@ (3 :> 150) @@ (4 :> 150)

DEFAULT_FIXED_OVERLAP_TOLERANCE == 150

TOP_LINER_OPTIONS ==
  ("108mm Dropdown" :> 108) @@ ("90mm Dropdown" :> 90) @@
  ("50mm Dropdown" :> 50) @@ ("No dropdown (0mm)" :> 0)

BESPOKE_DROPDOWN_LABEL == "Bespoke dropdown (auto)"

CUSTOM_DOOR_OVERLAP_MM == 25

DOOR_SYSTEM_OPTIONS == {"Made to measure doors", "Fixed 2223mm doors"}

\* the data editor's column limits
MIN_WIDTH_MM == 300

MIN_HEIGHT_MM == 300

MIN_DOORS == 1

MAX_DOORS == 10

FIXED_DOOR_WIDTH_FALLBACK == 762

TOP_LINER_FALLBACK == 108

(***************************************************************************)
(* Python arithmetic                                                       *)
(***************************************************************************)
Max(a, b) == IF a >= b THEN a ELSE b

Min(a, b) == IF a <= b THEN a ELSE b

\* round(n / d) for d > 0: to the nearest integer, a tie to the even one
RoundHalfEven(n, d) ==
  LET q == n \div d
      r == n % d
  IN  IF 2 * r < d THEN q
      ELSE IF 2 * r > d THEN q + 1
      ELSE IF q % 2 = 0 THEN q ELSE q + 1

QInt(i) == <<i, 1>>

QSub(a, b) == <<a[1] * b[2] - b[1] * a[2], a[2] * b[2]>>

QAdd(a, b) == <<a[1] * b[2] + b[1] * a[2], a[2] * b[2]>>

QMulInt(k, a) == <<k * a[1], a[2]>>

QDivInt(a, k) == <<a[1], a[2] * k>>

QLt(a, b) == a[1] * b[2] < b[1] * a[2]

QMax(a, b) == IF QLt(a, b) THEN b ELSE a

\* int(round(x))
IntRound(x) == RoundHalfEven(x[1], x[2])

\* round(x, 1), in tenths
Round1(x) == RoundHalfEven(10 * x[1], x[2])

(***************************************************************************)
(* Height status texts.  A status is the text with the constants of the    *)
(* f-string already in it, and nums, the values of the variables the       *)
(* f-string formats into the text at the places marked {}.                 *)
(***************************************************************************)
STATUS_OK == "OK"

STATUS_OK_BESPOKE == "OK (bespoke dropdown auto-calculated for fit)"

STATUS_TOO_SMALL ==
  "Opening too small for 2223mm door plus 36mm bottom liner and 54mm trackset tolerance."

STATUS_EXCEEDS_MAX ==
  "Dropdown needed is {}mm - exceeds max allowed 400mm (including 54mm trackset tolerance)."

STATUS_BESPOKE_TOO_TALL ==
  "Too tall for perfect fit with max 400mm bespoke dropdown (ideal dropdown would be about {}mm). Door height capped at 2431mm."

STATUS_CHECK_SETTINGS == "Check height / dropdown settings."

STATUS_NEED_DROPDOWN ==
  "Too tall for selected dropdown - need about {}mm dropdown (includes 54mm trackset tolerance)."

STATUS_TOO_TALL_AT_MAX ==
  "Too tall even at max 400mm dropdown (includes 54mm trackset tolerance)."

Status(text, nums) == [text |-> text, nums |-> nums]

\* str.startswith("OK"), over the texts above
StartsWithOK(text) == text \in {STATUS_OK, STATUS_OK_BESPOKE}

ISSUE_OK == "OK"

ISSUE_CHECK == "Check height"

(***************************************************************************)
(* calculate_for_row: validation / clamping                                *)
(***************************************************************************)
\* the width taken as it is in the table
ClampedWidth_Unclamped(r) == r.Width_mm

ClampedWidth(r) == Max(r.Width_mm, 1)

ClampedHeight(r) == Max(r.Height_mm, 1)

ClampedDoors(r) == Max(r.Doors, 1)

\* the dispatch turned round: everything but made-to-measure is fixed
IsFixedSystem_AllButMadeToMeasure(r) == r.Door_System # "Made to measure doors"

IsFixedSystem(r) == r.Door_System = "Fixed 2223mm doors"

(***************************************************************************)
(* calculate_for_row: fixed 2223mm door system                             *)
(***************************************************************************)
FixedDoorWidth(r) ==
  IF r.Fixed_Door_Width_mm \in FIXED_DOOR_WIDTH_OPTIONS
  THEN r.Fixed_Door_Width_mm
  ELSE FIXED_DOOR_WIDTH_FALLBACK

FixedDropdownRaw(height) ==
  height - BOTTOM_LINER_THICKNESS - TRACKSET_TOLERANCE - FIXED_DOOR_HEIGHT

\* the upper clamp forgotten
FixedDropdown_NoUpperClamp(dropdown_h_raw) ==
  IF dropdown_h_raw < 0 THEN 0 ELSE dropdown_h_raw

FixedDropdown(dropdown_h_raw) ==
  IF dropdown_h_raw < 0 THEN 0
  ELSE IF dropdown_h_raw > MAX_DROPDOWN_LIMIT THEN MAX_DROPDOWN_LIMIT
  ELSE dropdown_h_raw

\* the clamped dropdown reported in place of the one needed
FixedHeightStatus_ReportsClamped(dropdown_h_raw) ==
  IF dropdown_h_raw < 0 THEN Status(STATUS_TOO_SMALL, <<>>)
  ELSE IF dropdown_h_raw > MAX_DROPDOWN_LIMIT
       THEN Status(STATUS_EXCEEDS_MAX, <<MAX_DROPDOWN_LIMIT>>)
  ELSE Status(STATUS_OK, <<>>)

FixedHeightStatus(dropdown_h_raw) ==
  IF dropdown_h_raw < 0 THEN Status(STATUS_TOO_SMALL, <<>>)
  ELSE IF dropdown_h_raw > MAX_DROPDOWN_LIMIT
       THEN Status(STATUS_EXCEEDS_MAX, <<dropdown_h_raw>>)
  ELSE Status(STATUS_OK, <<>>)

\* the table left out: 150 for every door count
OverlapTolerance_DefaultOnly(doors) == DEFAULT_FIXED_OVERLAP_TOLERANCE

OverlapTolerance(doors) ==
  IF doors \in DOMAIN OVERLAP_TOLERANCES
  THEN OVERLAP_TOLERANCES[doors]
  ELSE DEFAULT_FIXED_OVERLAP_TOLERANCE

FixedDoorSpan(doors, door_width) == doors * door_width

SideThkRaw(width, door_span, tol) == QDivInt(QInt(width - door_span + tol), 2)

SideThk(side_thk_raw) ==
  IF QLt(side_thk_raw, QInt(0)) THEN QInt(0) ELSE side_thk_raw

\* one side liner taken off, not two
FixedNetWidth_OneLiner(width, side_thk) == QSub(QInt(width), side_thk)

FixedNetWidth(width, side_thk) == QSub(QInt(width), QMulInt(2, side_thk))

SpanDiff(door_span, net_width, tol) ==
  QSub(QInt(door_span), QAdd(net_width, QInt(tol)))

BuildOutPerSide(side_thk) ==
  QMax(QSub(side_thk, QInt(SIDE_LINER_THICKNESS)), QInt(0))

FixedIssueFlag(height_status) ==
  IF height_status.text = STATUS_OK THEN ISSUE_OK ELSE ISSUE_CHECK

FixedResult(r) ==
  LET width == ClampedWidth(r)
      height == ClampedHeight(r)
      doors == ClampedDoors(r)
      door_height == FIXED_DOOR_HEIGHT
      door_width == FixedDoorWidth(r)
      dropdown_h_raw == FixedDropdownRaw(height)
      dropdown_h == FixedDropdown(dropdown_h_raw)
      height_status == FixedHeightStatus(dropdown_h_raw)
      tol == OverlapTolerance(doors)
      door_span == FixedDoorSpan(doors, door_width)
      side_thk == SideThk(SideThkRaw(width, door_span, tol))
      net_width == FixedNetWidth(width, side_thk)
      span_diff == SpanDiff(door_span, net_width, tol)
      build_out_per_side == BuildOutPerSide(side_thk)
  IN  [ Door_Height_mm |-> door_height,
        Door_Width_mm |-> door_width,
        Doors_Used |-> doors,
        Dropdown_Height_mm |-> dropdown_h,
        Recommended_Dropdown_Height_mm |-> <<>>,
        Side_Liner_Thickness_mm |-> Round1(side_thk),
        Required_Buildout_Per_Side_mm |-> Round1(build_out_per_side),
        Net_Width_mm |-> IntRound(net_width),
        Door_Span_mm |-> door_span,
        Overlap_Tolerance_mm |-> tol,
        Span_Diff_mm |-> Round1(span_diff),
        Bottom_Liner_Length_mm |-> IntRound(net_width),
        Side_Liner_Length_mm |-> height,
        Dropdown_Length_mm |-> IntRound(net_width),
        Trackset_Tolerance_mm |-> TRACKSET_TOLERANCE,
        Height_Status |-> height_status,
        Issue |-> FixedIssueFlag(height_status) ]

(***************************************************************************)
(* calculate_for_row: made-to-measure doors                                *)
(***************************************************************************)
MtmNetWidth(width) == width - 2 * SIDE_LINER_THICKNESS

\* the trackset tolerance left out of the usable height
BaseUsableHeight_NoTrackset(height) == height - BOTTOM_LINER_THICKNESS

BaseUsableHeight(height) ==
  height - BOTTOM_LINER_THICKNESS - TRACKSET_TOLERANCE

\* bespoke dropdown
IdealDoorHeight(base_usable_height) == Min(MAX_DOOR_HEIGHT, base_usable_height)

IdealDropdown(base_usable_height) ==
  Max(base_usable_height - IdealDoorHeight(base_usable_height), 0)

\* the limit on the bespoke dropdown forgotten
BespokeDropdown_Unlimited(ideal_dropdown) == ideal_dropdown

BespokeDropdown(ideal_dropdown) == Min(ideal_dropdown, MAX_DROPDOWN_LIMIT)

\* fixed dropdown options
SelectedDropdown(option) ==
  IF option \in DOMAIN TOP_LINER_OPTIONS
  THEN TOP_LINER_OPTIONS[option]
  ELSE TOP_LINER_FALLBACK

OptionDropdown(option) == Min(SelectedDropdown(option), MAX_DROPDOWN_LIMIT)

\* the guard against a negative door height left out
RawDoorHeight_Unguarded(base_usable_height, dropdown_h) ==
  base_usable_height - dropdown_h

RawDoorHeight(base_usable_height, dropdown_h) ==
  Max(base_usable_height - dropdown_h, 0)

DropdownNeededForMax(base_usable_height) == base_usable_height - MAX_DOOR_HEIGHT

BespokeDoorHeight(raw_door_height) == Min(raw_door_height, MAX_DOOR_HEIGHT)

BespokeHeightStatus(ideal_dropdown, final_door_h) ==
  IF ideal_dropdown <= MAX_DROPDOWN_LIMIT /\ final_door_h <= MAX_DOOR_HEIGHT
  THEN Status(STATUS_OK_BESPOKE, <<>>)
  ELSE IF ideal_dropdown > MAX_DROPDOWN_LIMIT
       THEN Status(STATUS_BESPOKE_TOO_TALL, <<ideal_dropdown>>)
  ELSE Status(STATUS_CHECK_SETTINGS, <<>>)

OptionDoorHeight(raw_door_height) ==
  IF raw_door_height <= MAX_DOOR_HEIGHT THEN raw_door_height ELSE MAX_DOOR_HEIGHT

\* a needed dropdown of exactly 400 taken as beyond the maximum
OptionHeightStatus_StrictLimit(raw_door_height, dropdown_needed_for_max) ==
  IF raw_door_height <= MAX_DOOR_HEIGHT THEN Status(STATUS_OK, <<>>)
  ELSE IF dropdown_needed_for_max < MAX_DROPDOWN_LIMIT
       THEN Status(STATUS_NEED_DROPDOWN, <<dropdown_needed_for_max>>)
  ELSE Status(STATUS_TOO_TALL_AT_MAX, <<>>)

OptionHeightStatus(raw_door_height, dropdown_needed_for_max) ==
  IF raw_door_height <= MAX_DOOR_HEIGHT THEN Status(STATUS_OK, <<>>)
  ELSE IF dropdown_needed_for_max <= MAX_DROPDOWN_LIMIT
       THEN Status(STATUS_NEED_DROPDOWN, <<dropdown_needed_for_max>>)
  ELSE Status(STATUS_TOO_TALL_AT_MAX, <<>>)

\* the three values the top-liner branch leaves behind
BespokeHeights(base_usable_height) ==
  LET ideal_dropdown == IdealDropdown(base_usable_height)
      dropdown_h == BespokeDropdown(ideal_dropdown)
      final_door_h ==
        BespokeDoorHeight(RawDoorHeight(base_usable_height, dropdown_h))
  IN  [ dropdown_h |-> dropdown_h,
        final_door_h |-> final_door_h,
        height_status |-> BespokeHeightStatus(ideal_dropdown, final_door_h),
        recommended_dropdown |-> <<dropdown_h>> ]

OptionHeights(base_usable_height, option) ==
  LET dropdown_h == OptionDropdown(option)
      raw_door_height == RawDoorHeight(base_usable_height, dropdown_h)
  IN  [ dropdown_h |-> dropdown_h,
        final_door_h |-> OptionDoorHeight(raw_door_height),
        height_status |->
          OptionHeightStatus(raw_door_height,
                             DropdownNeededForMax(base_usable_height)),
        recommended_dropdown |-> <<>> ]

\* an overlap counted for every door, not for every meeting of two doors
MtmDoorWidth_OverlapPerDoor(net_width, doors) ==
  IF doors > 0
  THEN QDivInt(QInt(net_width + doors * CUSTOM_DOOR_OVERLAP_MM), doors)
  ELSE QInt(0)

MtmDoorWidth(net_width, doors) ==
  IF doors > 0
  THEN QDivInt(QInt(net_width + (doors - 1) * CUSTOM_DOOR_OVERLAP_MM), doors)
  ELSE QInt(0)

\* int(door_width): the door width cut to whole millimetres, not rounded
MtmDoorWidthColumn_Truncated(door_width) == door_width[1] \div door_width[2]

\* "Door_Width_mm": int(round(door_width))
MtmDoorWidthColumn(door_width) == IntRound(door_width)

MtmDoorSpan(doors, door_width) == QMulInt(doors, door_width)

TotalOverlap(doors) == (doors - 1) * CUSTOM_DOOR_OVERLAP_MM

MtmIssueFlag(height_status) ==
  IF StartsWithOK(height_status.text) THEN ISSUE_OK ELSE ISSUE_CHECK

MadeToMeasureResult(r) ==
  LET width == ClampedWidth(r)
      height == ClampedHeight(r)
      doors == ClampedDoors(r)
      side_liner_thk == SIDE_LINER_THICKNESS
      net_width == MtmNetWidth(width)
      option == r.Top_Liner_Option
      base_usable_height == BaseUsableHeight(height)
      h == IF option = BESPOKE_DROPDOWN_LABEL
           THEN BespokeHeights(base_usable_height)
           ELSE OptionHeights(base_usable_height, option)
      door_width == MtmDoorWidth(net_width, doors)
      door_span == MtmDoorSpan(doors, door_width)
  IN  [ Door_Height_mm |-> h.final_door_h,
        Door_Width_mm |-> MtmDoorWidthColumn(door_width),
        Doors_Used |-> doors,
        Dropdown_Height_mm |-> h.dropdown_h,
        Recommended_Dropdown_Height_mm |-> h.recommended_dropdown,
        Side_Liner_Thickness_mm |-> Round1(QInt(side_liner_thk)),
        Required_Buildout_Per_Side_mm |-> 0,
        Net_Width_mm |-> net_width,
        Door_Span_mm |-> IntRound(door_span),
        Overlap_Tolerance_mm |-> TotalOverlap(doors),
        Span_Diff_mm |-> 0,
        Bottom_Liner_Length_mm |-> net_width,
        Side_Liner_Length_mm |-> height,
        Dropdown_Length_mm |-> net_width,
        Trackset_Tolerance_mm |-> TRACKSET_TOLERANCE,
        Height_Status |-> h.height_status,
        Issue |-> MtmIssueFlag(h.height_status) ]

calculate_for_row(r) ==
  IF IsFixedSystem(r) THEN FixedResult(r) ELSE MadeToMeasureResult(r)

(***************************************************************************)
(* draw_wardrobe_diagram: the layout of the front elevation in the unit    *)
(* square.  Relative lengths are rationals in lowest terms; the code holds *)
(* them in binary floating point, which lands within a few units in the    *)
(* last place of these values.  A rectangle is [x, y, w, h], as the        *)
(* arguments of Rectangle((x, y), w, h).                                   *)
(***************************************************************************)
RECURSIVE GCD(_, _)
GCD(a, b) == IF b = 0 THEN a ELSE GCD(b, a % b)

QNorm(a) ==
  LET g == GCD(IF a[1] < 0 THEN -a[1] ELSE a[1], a[2])
  IN  <<a[1] \div g, a[2] \div g>>

\* a / b for integers, b > 0
QRatio(a, b) == QNorm(<<a, b>>)

QMul(a, b) ==
  LET g1 == GCD(IF a[1] < 0 THEN -a[1] ELSE a[1], b[2])
      g2 == GCD(IF b[1] < 0 THEN -b[1] ELSE b[1], a[2])
  IN  QNorm(<<(a[1] \div g1) * (b[1] \div g2), (a[2] \div g2) * (b[2] \div g1)>>)

\* a / b for b > 0
QDiv(a, b) == QMul(a, <<b[2], b[1]>>)

QPlus(a, b) ==
  LET g == GCD(a[2], b[2])
  IN  QNorm(<<a[1] * (b[2] \div g) + b[1] * (a[2] \div g), (a[2] \div g) * b[2]>>)

QMinus(a, b) == QPlus(a, <<-b[1], b[2]>>)

Rect(x, y, w, h) == [x |-> x, y |-> y, w |-> w, h |-> h]

\* side_thk_mm is a column rounded to 0.1, held in tenths
SideRel(side_thk_tenths, opening_width_mm) ==
  QRatio(Max(side_thk_tenths, 0), 10 * opening_width_mm)

BottomRel(bottom_thk_mm, opening_height_mm) ==
  QRatio(bottom_thk_mm, opening_height_mm)

DropdownRel(dropdown_height_mm, opening_height_mm) ==
  IF dropdown_height_mm > 0
  THEN QRatio(dropdown_height_mm, opening_height_mm)
  ELSE QInt(0)

DoorHRel(door_height_mm, opening_height_mm) ==
  IF door_height_mm > 0
  THEN QRatio(door_height_mm, opening_height_mm)
  ELSE QInt(0)

DoorWidthRel(door_width_mm, opening_width_mm) ==
  IF opening_width_mm > 0
  THEN QRatio(Max(door_width_mm, 0), opening_width_mm)
  ELSE QInt(0)

AvailableSpan(side_rel) == QMinus(QInt(1), QMulInt(2, side_rel))

\* no scaling: the doors drawn at their own width
ClampedDoorWidthRel_Unscaled(door_width_rel, num_doors, side_rel) ==
  door_width_rel

\* Clamp so doors don't visually extend beyond opening
ClampedDoorWidthRel(door_width_rel, num_doors, side_rel) ==
  LET total_doors_span == QNorm(QMulInt(num_doors, door_width_rel))
      available_span == AvailableSpan(side_rel)
  IN  IF QLt(available_span, total_doors_span) /\ QLt(QInt(0), total_doors_span)
      THEN QMul(door_width_rel, QDiv(available_span, total_doors_span))
      ELSE door_width_rel

\* for _ in range(num_doors): a door at x_start, then x_start += door_width_rel
RECURSIVE DoorRects(_, _, _, _, _)
DoorRects(left, x_start, door_width_rel, bottom_rel, door_h_rel) ==
  IF left = 0 THEN <<>>
  ELSE <<Rect(x_start, bottom_rel, door_width_rel, door_h_rel)>>
         \o DoorRects(left - 1, QPlus(x_start, door_width_rel),
                      door_width_rel, bottom_rel, door_h_rel)

draw_wardrobe_diagram(opening_width_mm_in, opening_height_mm_in, bottom_thk_mm, side_thk_tenths, dropdown_height_mm, door_height_mm, num_doors_in, door_width_mm) ==
  LET opening_width_mm == Max(opening_width_mm_in, 1)
      opening_height_mm == Max(opening_height_mm_in, 1)
      num_doors == Max(num_doors_in, 1)
      side_rel == SideRel(side_thk_tenths, opening_width_mm)
      bottom_rel == BottomRel(bottom_thk_mm, opening_height_mm)
      dropdown_rel == DropdownRel(dropdown_height_mm, opening_height_mm)
      door_h_rel == DoorHRel(door_height_mm, opening_height_mm)
      inner == AvailableSpan(side_rel)
      upper == QMinus(QInt(1), bottom_rel)
      door_width_rel ==
        ClampedDoorWidthRel(DoorWidthRel(door_width_mm, opening_width_mm),
                            num_doors, side_rel)
  IN  [ side_rel |-> side_rel,
        bottom_rel |-> bottom_rel,
        dropdown_rel |-> dropdown_rel,
        door_h_rel |-> door_h_rel,
        left_liner |-> Rect(QInt(0), bottom_rel, side_rel, upper),
        right_liner |->
          Rect(QMinus(QInt(1), side_rel), bottom_rel, side_rel, upper),
        bottom_liner |-> Rect(side_rel, QInt(0), inner, bottom_rel),
        dropdown |->
          IF QLt(QInt(0), dropdown_rel)
          THEN <<Rect(side_rel, QMinus(QInt(1), dropdown_rel), inner,
                      dropdown_rel)>>
          ELSE <<>>,
        doors |->
          DoorRects(num_doors, side_rel, door_width_rel, bottom_rel,
                    door_h_rel) ]

(***************************************************************************)
(* The rows tried.  A row is what the data editor holds for one opening.   *)
(* The editor offers widths and heights from 300 and 1 to 10 doors; rows   *)
(* below those minimums are tried too, for the clamping of the engine.     *)
(***************************************************************************)
WidthStep == 113

WidthSteps == 26

HeightStep == 127

HeightSteps == 22

UnderRange == {-50, 0, 1, 150, 299}

WidthsTried ==
  UnderRange \cup {300, 306, 2200}
    \cup {MIN_WIDTH_MM + WidthStep * i : i \in 1..WidthSteps}

HeightsTried ==
  UnderRange
    \cup {300, 2200, 2312, 2313, 2314, 2521, 2522, 2571, 2572, 2600, 2611,
          2612, 2629, 2630, 2713, 2714, 2921, 2922, 3030}
    \cup {MIN_HEIGHT_MM + HeightStep * i : i \in 1..HeightSteps}

DoorsTried == {-1, 0} \cup (MIN_DOORS..MAX_DOORS)

TopLinerChoices == DOMAIN TOP_LINER_OPTIONS \cup {BESPOKE_DROPDOWN_LABEL}

Row(w, h, n, system, option, door_width) ==
  [ Width_mm |-> w, Height_mm |-> h, Doors |-> n, Door_System |-> system,
    Top_Liner_Option |-> option, Fixed_Door_Width_mm |-> door_width ]

\* fixed rows with each door width (and one that is not on offer),
\* made-to-measure rows with each top liner option (and one not on offer),
\* and rows whose door system is neither of the two
SystemChoices ==
  { <<"Fixed 2223mm doors", "108mm Dropdown", dw>> :
      dw \in FIXED_DOOR_WIDTH_OPTIONS \cup {700} }
  \cup
  { <<"Made to measure doors", o, 762>> :
      o \in TopLinerChoices \cup {"200mm Dropdown"} }
  \cup
  { <<"Hinged doors", o, 762>> : o \in {"108mm Dropdown", BESPOKE_DROPDOWN_LABEL} }

ValidRow(r) ==
  /\ r.Width_mm >= MIN_WIDTH_MM
  /\ r.Height_mm >= MIN_HEIGHT_MM
  /\ r.Doors \in MIN_DOORS..MAX_DOORS
  /\ r.Door_System \in DOOR_SYSTEM_OPTIONS
  /\ r.Top_Liner_Option \in TopLinerChoices
  /\ r.Fixed_Door_Width_mm \in FIXED_DOOR_WIDTH_OPTIONS

(***************************************************************************)
(* The script: the table holds a row; the results table is computed.       *)
(***************************************************************************)
Init ==
  /\ \E w \in WidthsTried, h \in HeightsTried, n \in DoorsTried,
        c \in SystemChoices :
       row = Row(w, h, n, c[1], c[2], c[3])
  /\ calcs = <<>>
  /\ fig = <<>>
  /\ pc = "edited"

\* calcs = edited_df.apply(calculate_for_row, axis=1)
Calculate ==
  /\ pc = "edited"
  /\ calcs' = <<calculate_for_row(row)>>
  /\ pc' = "calculated"
  /\ UNCHANGED <<row, fig>>

\* fig = draw_wardrobe_diagram(...) for the row of the results table
Draw ==
  /\ pc = "calculated"
  /\ fig' = <<draw_wardrobe_diagram(row.Width_mm, row.Height_mm,
                                    BOTTOM_LINER_THICKNESS,
                                    calcs[1].Side_Liner_Thickness_mm,
                                    calcs[1].Dropdown_Height_mm,
                                    calcs[1].Door_Height_mm,
                                    calcs[1].Doors_Used,
                                    calcs[1].Door_Width_mm)>>
  /\ pc' = "drawn"
  /\ UNCHANGED <<row, calcs>>

Next == Calculate \/ Draw

Spec == Init /\ [][Next]_vars

Calculated == pc \in {"calculated", "drawn"}

Drawn == pc = "drawn"

layout == fig[1]

res == calcs[1]

Abs(i) == IF i < 0 THEN -i ELSE i

IsFixedRow == IsFixedSystem(row)

IsOptionRow ==
  ~IsFixedSystem(row) /\ row.Top_Liner_Option # BESPOKE_DROPDOWN_LABEL

IsBespokeRow ==
  ~IsFixedSystem(row) /\ row.Top_Liner_Option = BESPOKE_DROPDOWN_LABEL

(***************************************************************************)
(* C1.  For every valid row, in both door systems, the record returned     *)
(* has Net_Width_mm = Width_mm - 2 * Side_Liner_Thickness_mm exactly, also *)
(* when the fixed system clamped the side liner to 0 and when the side     *)
(* liner is a half millimetre value.  (The thickness is in tenths.)        *)
(***************************************************************************)
C1_NetWidthIdentity ==
  (Calculated /\ ValidRow(row)) =>
    10 * res.Net_Width_mm = 10 * row.Width_mm - 2 * res.Side_Liner_Thickness_mm

\* a valid fixed row whose side liner is a half millimetre value
C1_Witness ==
  /\ Calculated /\ ValidRow(row) /\ IsFixedRow
  /\ res.Side_Liner_Thickness_mm % 10 = 5

(***************************************************************************)
(* C2.  As claimed: for every valid row the reported door span and         *)
(* Doors_Used times the reported door width differ by at most 1 mm.        *)
(***************************************************************************)
C2_SpanWithinOneMm ==
  (Calculated /\ ValidRow(row)) =>
    Abs(res.Door_Span_mm - res.Doors_Used * res.Door_Width_mm) <= 1

(***************************************************************************)
(* C2, amended.  For every valid row the reported door span and Doors_Used *)
(* times the reported door width differ by at most half a millimetre per   *)
(* door (Doors_Used / 2 in all), and are equal in the fixed system.        *)
(***************************************************************************)
C2_SpanWithinHalfMmPerDoor ==
  (Calculated /\ ValidRow(row)) =>
    /\ 2 * Abs(res.Door_Span_mm - res.Doors_Used * res.Door_Width_mm)
         <= res.Doors_Used
    /\ IsFixedRow => res.Door_Span_mm = res.Doors_Used * res.Door_Width_mm

\* a valid made-to-measure row where the per-door rounding adds up to
\* more than 1 mm
C2_Witness ==
  /\ Calculated /\ ValidRow(row) /\ ~IsFixedRow
  /\ Abs(res.Door_Span_mm - res.Doors_Used * res.Door_Width_mm) > 1

(***************************************************************************)
(* C3.  For every row the engine accepts, under-range rows included: the   *)
(* dropdown is within 0..400; the door height is within 0..2431 for        *)
(* made-to-measure doors and is 2223 for fixed doors; the side liner       *)
(* thickness is not negative.                                              *)
(***************************************************************************)
C3_ResultRanges ==
  Calculated =>
    /\ res.Dropdown_Height_mm \in 0..MAX_DROPDOWN_LIMIT
    /\ IsFixedRow => res.Door_Height_mm = 2223
    /\ ~IsFixedRow => res.Door_Height_mm \in 0..2431
    /\ res.Side_Liner_Thickness_mm >= 0

\* an under-range height that leaves no room for the selected dropdown:
\* the door height is held at 0
C3_Witness ==
  /\ Calculated /\ IsOptionRow
  /\ row.Height_mm - 36 - 54 - res.Dropdown_Height_mm < 0
  /\ res.Door_Height_mm = 0

(***************************************************************************)
(* C4.  As claimed: for every valid row the opening cannot be fitted to    *)
(* (the dropdown was clamped to 0 or to 400, the door height was capped at *)
(* 2431, or the fixed system clamped the side liner to 0 and left a        *)
(* nonzero Span_Diff_mm), the engine returns a record whose Issue is the   *)
(* CHECK value, not OK.                                                    *)
(***************************************************************************)
DropdownWasClamped ==
  \/ IsFixedRow /\ row.Height_mm - 36 - 54 - 2223 \notin 0..400
  \/ IsBespokeRow /\ row.Height_mm - 36 - 54 - 2431 > 400

DoorHeightWasCapped ==
  ~IsFixedRow /\ row.Height_mm - 36 - 54 - res.Dropdown_Height_mm > 2431

SideLinerWasClamped ==
  /\ IsFixedRow
  /\ row.Width_mm - res.Door_Span_mm + res.Overlap_Tolerance_mm < 0

C4_InfeasibleIsCheck ==
  (/\ Calculated /\ ValidRow(row)
   /\ \/ DropdownWasClamped
      \/ DoorHeightWasCapped
      \/ SideLinerWasClamped /\ res.Span_Diff_mm # 0)
    => res.Issue = ISSUE_CHECK

(***************************************************************************)
(* C5.  As claimed: a row whose door system is neither of the two known    *)
(* variants never gets a result; the engine fails on it.                   *)
(***************************************************************************)
C5_UnknownSystemFails ==
  (row.Door_System \notin DOOR_SYSTEM_OPTIONS) => (calcs = <<>> /\ pc # "calculated")

(***************************************************************************)
(* C5, amended.  The engine does not fail on an unknown door system: a row *)
(* whose door system is anything but "Fixed 2223mm doors" gets the record  *)
(* the same row gets with "Made to measure doors".                         *)
(***************************************************************************)
C5_UnknownSystemIsMadeToMeasure ==
  (Calculated /\ row.Door_System \notin DOOR_SYSTEM_OPTIONS) =>
    /\ res = MadeToMeasureResult([row EXCEPT !.Door_System = "Made to measure doors"])
    /\ res.Side_Liner_Thickness_mm = 180
    /\ res.Net_Width_mm = Max(row.Width_mm, 1) - 36

\* a result computed for a row with an unknown door system
C5_Witness ==
  /\ Calculated /\ row.Door_System = "Hinged doors"
  /\ res.Issue \in {ISSUE_OK, ISSUE_CHECK}

(***************************************************************************)
(* C6.  As claimed: a width below 300 is computed as 300, a height below   *)
(* 300 as 300 and a door count below 1 as 1.                               *)
(***************************************************************************)
C6_ClampedTo300 ==
  Calculated =>
    res = calculate_for_row([row EXCEPT !.Width_mm = Max(@, 300),
                                        !.Height_mm = Max(@, 300),
                                        !.Doors = Max(@, 1)])

(***************************************************************************)
(* C6, amended.  A width below 1 is computed as 1, a height below 1 as 1   *)
(* and a door count below 1 as 1 (Doors_Used = 1); widths and heights from *)
(* 1 to 299 are computed as given.  A result is returned for every         *)
(* under-range width, height and door count.                               *)
(***************************************************************************)
C6_ClampedTo1 ==
  Calculated =>
    /\ calcs # <<>>
    /\ res = calculate_for_row([row EXCEPT !.Width_mm = IF @ < 1 THEN 1 ELSE @,
                                           !.Height_mm = IF @ < 1 THEN 1 ELSE @,
                                           !.Doors = IF @ < 1 THEN 1 ELSE @])
    /\ row.Doors < 1 => res.Doors_Used = 1
    /\ row.Height_mm < 1 => res.Side_Liner_Length_mm = 1
    /\ row.Height_mm \in 1..299 => res.Side_Liner_Length_mm = row.Height_mm
    /\ (row.Width_mm < 1 /\ ~IsFixedRow) => res.Net_Width_mm = 1 - 36
    /\ (row.Width_mm \in 1..299 /\ ~IsFixedRow) =>
         res.Net_Width_mm = row.Width_mm - 36

\* a result for a row whose width, height and door count are all below 1
C6_Witness ==
  /\ Calculated
  /\ row.Width_mm < 1 /\ row.Height_mm < 1 /\ row.Doors < 1
  /\ res.Doors_Used = 1 /\ res.Side_Liner_Length_mm = 1

(***************************************************************************)
(* C7.  As claimed: for every valid row, a Height_Status that is not OK    *)
(* carries a number derived from the opening's height: the fixed system's  *)
(* too-small and exceeds-max statuses carry height - 36 - 54 - 2223 (the   *)
(* shortfall, the dropdown needed), the made-to-measure too-tall statuses  *)
(* carry base_usable_height - 2431, the dropdown the opening would need.   *)
(* None is a constant message.                                             *)
(***************************************************************************)
C7_EveryStatusCarriesANumber ==
  (Calculated /\ ValidRow(row) /\ ~StartsWithOK(res.Height_Status.text)) =>
    /\ res.Height_Status.nums # <<>>
    /\ IsFixedRow =>
         Abs(res.Height_Status.nums[1]) = Abs(row.Height_mm - 36 - 54 - 2223)
    /\ ~IsFixedRow =>
         res.Height_Status.nums[1] = row.Height_mm - 36 - 54 - 2431

(***************************************************************************)
(* C7, amended.  For every valid row, three of the five statuses that are  *)
(* not OK carry a number derived from the opening's height: the fixed      *)
(* system's exceeds-max status carries the dropdown needed, height - 36 -  *)
(* 54 - 2223; the made-to-measure "need about N mm dropdown" status and    *)
(* the bespoke too-tall status carry base_usable_height - 2431.  The fixed *)
(* system's too-small status and the made-to-measure "too tall even at max *)
(* 400mm dropdown" status are constant messages that carry no number of    *)
(* the opening.                                                            *)
(***************************************************************************)
C7_WhichStatusesCarryANumber ==
  (Calculated /\ ValidRow(row) /\ ~StartsWithOK(res.Height_Status.text)) =>
    LET text == res.Height_Status.text
        nums == res.Height_Status.nums
    IN  \/ /\ IsFixedRow /\ text = STATUS_EXCEEDS_MAX
           /\ nums = <<row.Height_mm - 36 - 54 - 2223>>
        \/ /\ IsFixedRow /\ text = STATUS_TOO_SMALL
           /\ nums = <<>>
        \/ /\ IsOptionRow /\ text = STATUS_NEED_DROPDOWN
           /\ nums = <<row.Height_mm - 36 - 54 - 2431>>
        \/ /\ IsOptionRow /\ text = STATUS_TOO_TALL_AT_MAX
           /\ nums = <<>>
        \/ /\ IsBespokeRow /\ text = STATUS_BESPOKE_TOO_TALL
           /\ nums = <<row.Height_mm - 36 - 54 - 2431>>

\* a valid fixed row whose status reports the dropdown needed, above 400
C7_Witness ==
  /\ Calculated /\ ValidRow(row) /\ IsFixedRow
  /\ res.Height_Status.text = STATUS_EXCEEDS_MAX
  /\ res.Height_Status.nums[1] > 400

(***************************************************************************)
(* C8.  In the fixed system, for every valid row: the side liner thickness *)
(* is max((width - doors * door_width + tolerance) / 2, 0), with tolerance *)
(* 75 for 2 doors and 150 for 3, 4 and 5 or more, and door_width the       *)
(* selected one of 610, 762, 914; the build-out per side is max(side       *)
(* thickness - 18, 0); Span_Diff_mm = door_span - (net_width + tolerance)  *)
(* is 0 when the side thickness was not clamped and nonzero only when it   *)
(* was.  (Thickness, build-out and span difference are in tenths.)         *)
(***************************************************************************)
C8_FixedSideLiner ==
  (Calculated /\ ValidRow(row) /\ IsFixedRow) =>
    LET tol == res.Overlap_Tolerance_mm
        twice == row.Width_mm - row.Doors * row.Fixed_Door_Width_mm + tol
    IN  /\ row.Doors = 2 => tol = 75
        /\ row.Doors >= 3 => tol = 150
        /\ res.Door_Width_mm = row.Fixed_Door_Width_mm
        /\ res.Door_Span_mm = row.Doors * row.Fixed_Door_Width_mm
        /\ res.Side_Liner_Thickness_mm = Max(5 * twice, 0)
        /\ res.Required_Buildout_Per_Side_mm =
             Max(res.Side_Liner_Thickness_mm - 180, 0)
        /\ res.Span_Diff_mm =
             10 * (res.Door_Span_mm - (res.Net_Width_mm + tol))
        /\ twice >= 0 => res.Span_Diff_mm = 0
        /\ res.Span_Diff_mm # 0 <=> twice < 0

\* 2200 wide, 2 doors of 610: side liners of 527.5, build-out 509.5
C8_Witness ==
  /\ Calculated /\ ValidRow(row) /\ IsFixedRow
  /\ row.Width_mm = 2200 /\ row.Doors = 2 /\ row.Fixed_Door_Width_mm = 610
  /\ res.Side_Liner_Thickness_mm = 5275
  /\ res.Required_Buildout_Per_Side_mm = 5095
  /\ res.Span_Diff_mm = 0

(***************************************************************************)
(* C9.  In the fixed system, for every valid row, with required = height - *)
(* 36 - 54 - 2223: the dropdown is required and the status is "OK" exactly *)
(* when 0 <= required <= 400; when required < 0 the dropdown is 0 and the  *)
(* status is the too-small one; when required > 400 the dropdown is 400    *)
(* and the status is the exceeds-max one.  Width, door count and door      *)
(* width play no part.                                                     *)
(***************************************************************************)
C9_FixedDropdown ==
  (Calculated /\ ValidRow(row) /\ IsFixedRow) =>
    LET required == row.Height_mm - 36 - 54 - 2223
        text == res.Height_Status.text
    IN  /\ text = STATUS_OK <=> required \in 0..400
        /\ required \in 0..400 => res.Dropdown_Height_mm = required
        /\ required < 0 =>
             res.Dropdown_Height_mm = 0 /\ text = STATUS_TOO_SMALL
        /\ required > 400 =>
             res.Dropdown_Height_mm = 400 /\ text = STATUS_EXCEEDS_MAX

\* 2200 x 2600 with 3 doors of 762: dropdown 287, status OK
C9_Witness ==
  /\ Calculated /\ IsFixedRow
  /\ row.Width_mm = 2200 /\ row.Height_mm = 2600
  /\ row.Doors = 3 /\ row.Fixed_Door_Width_mm = 762
  /\ res.Dropdown_Height_mm = 287
  /\ res.Height_Status.text = STATUS_OK

(***************************************************************************)
(* C10.  For made-to-measure doors with a fixed dropdown option d of 108,  *)
(* 90, 50 or 0, for every valid row, with base = height - 36 - 54 and raw  *)
(* = max(base - d, 0): the dropdown is d; if raw <= 2431 the door height   *)
(* is raw and the status is "OK"; otherwise the door height is 2431 and    *)
(* the status is not OK: it reports the dropdown needed, base - 2431, when *)
(* that is at most 400, and that the opening is too tall even at the       *)
(* 400mm maximum when it is more.  No dropdown is recommended.             *)
(***************************************************************************)
OptionMm ==
  CASE row.Top_Liner_Option = "108mm Dropdown" -> 108
    [] row.Top_Liner_Option = "90mm Dropdown" -> 90
    [] row.Top_Liner_Option = "50mm Dropdown" -> 50
    [] row.Top_Liner_Option = "No dropdown (0mm)" -> 0

C10_OptionDropdown ==
  (Calculated /\ ValidRow(row) /\ IsOptionRow) =>
    LET d == OptionMm
        base == row.Height_mm - 36 - 54
        raw == IF base - d > 0 THEN base - d ELSE 0
    IN  /\ res.Dropdown_Height_mm = d
        /\ res.Recommended_Dropdown_Height_mm = <<>>
        /\ raw <= 2431 =>
             /\ res.Door_Height_mm = raw
             /\ res.Height_Status = Status(STATUS_OK, <<>>)
             /\ res.Issue = ISSUE_OK
        /\ raw > 2431 =>
             /\ res.Door_Height_mm = 2431
             /\ res.Issue = ISSUE_CHECK
             /\ base - 2431 <= 400 =>
                  res.Height_Status = Status(STATUS_NEED_DROPDOWN, <<base - 2431>>)
             /\ base - 2431 > 400 =>
                  res.Height_Status = Status(STATUS_TOO_TALL_AT_MAX, <<>>)

\* 2200 x 2600 with 3 doors and the 108mm dropdown
C10_Witness ==
  /\ Calculated /\ IsOptionRow
  /\ row.Width_mm = 2200 /\ row.Height_mm = 2600 /\ row.Doors = 3
  /\ row.Top_Liner_Option = "108mm Dropdown"
  /\ res.Door_Height_mm = 2402 /\ res.Door_Width_mm = 738
  /\ res.Dropdown_Height_mm = 108 /\ res.Net_Width_mm = 2164
  /\ res.Door_Span_mm = 2214 /\ res.Overlap_Tolerance_mm = 50
  /\ res.Height_Status.text = STATUS_OK

(***************************************************************************)
(* C11.  For made-to-measure doors with the bespoke option, for every      *)
(* valid row, with base = height - 36 - 54 and ideal = max(base -          *)
(* min(2431, base), 0): the dropdown is min(ideal, 400); the recommended   *)
(* dropdown is the dropdown; the door height is min(max(base - dropdown,   *)
(* 0), 2431); the status begins with "OK" exactly when ideal <= 400; when  *)
(* ideal > 400 the status is not OK and reports the ideal dropdown and     *)
(* the door height capped at 2431.  The status "Check height / dropdown    *)
(* settings." is never produced.                                           *)
(***************************************************************************)
C11_BespokeDropdown ==
  (Calculated /\ ValidRow(row) /\ IsBespokeRow) =>
    LET base == row.Height_mm - 36 - 54
        ideal == IF base > 2431 THEN base - 2431 ELSE 0
        dropdown == IF ideal > 400 THEN 400 ELSE ideal
        left == IF base - dropdown > 0 THEN base - dropdown ELSE 0
    IN  /\ res.Dropdown_Height_mm = dropdown
        /\ res.Recommended_Dropdown_Height_mm = <<res.Dropdown_Height_mm>>
        /\ res.Door_Height_mm = (IF left > 2431 THEN 2431 ELSE left)
        /\ StartsWithOK(res.Height_Status.text) <=> ideal <= 400
        /\ ideal <= 400 => res.Height_Status = Status(STATUS_OK_BESPOKE, <<>>)
        /\ ideal > 400 =>
             /\ res.Height_Status = Status(STATUS_BESPOKE_TOO_TALL, <<ideal>>)
             /\ res.Door_Height_mm = 2431
             /\ res.Issue = ISSUE_CHECK
        /\ res.Height_Status.text # STATUS_CHECK_SETTINGS

\* 2200 x 2600 with 2 doors, bespoke: dropdown 79, door height 2431
C11_Witness ==
  /\ Calculated /\ IsBespokeRow
  /\ row.Width_mm = 2200 /\ row.Height_mm = 2600 /\ row.Doors = 2
  /\ res.Dropdown_Height_mm = 79
  /\ res.Recommended_Dropdown_Height_mm = <<79>>
  /\ res.Door_Height_mm = 2431
  /\ res.Height_Status.text = STATUS_OK_BESPOKE

(***************************************************************************)
(* C12.  For made-to-measure doors, for every valid row, whatever the top  *)
(* liner option and the height outcome: the side liner thickness is 18,    *)
(* the build-out 0, the span difference 0, the net width is width - 36,    *)
(* the overlap tolerance is (doors - 1) * 25, the door width is (net width *)
(* + (doors - 1) * 25) / doors (reported to the nearest millimetre, a half *)
(* to the even one), and the door span is the net width plus the overlap   *)
(* tolerance.  With 1 door the door width is the net width.                *)
(***************************************************************************)
C12_MadeToMeasureWidths ==
  (Calculated /\ ValidRow(row) /\ ~IsFixedRow) =>
    LET n == row.Doors
        cover == row.Width_mm - 36 + (n - 1) * 25
        off == n * res.Door_Width_mm - cover
    IN  /\ res.Side_Liner_Thickness_mm = 180
        /\ res.Required_Buildout_Per_Side_mm = 0
        /\ res.Span_Diff_mm = 0
        /\ res.Net_Width_mm = row.Width_mm - 36
        /\ res.Overlap_Tolerance_mm = (n - 1) * 25
        /\ 2 * Abs(off) <= n
        /\ 2 * Abs(off) = n => res.Door_Width_mm % 2 = 0
        /\ res.Door_Span_mm = res.Net_Width_mm + res.Overlap_Tolerance_mm
        /\ n = 1 => res.Door_Width_mm = res.Net_Width_mm

\* a too-tall bespoke opening, 2200 wide with 3 doors: doors of 738
C12_Witness ==
  /\ Calculated /\ ValidRow(row) /\ IsBespokeRow
  /\ res.Issue = ISSUE_CHECK
  /\ row.Width_mm = 2200 /\ row.Doors = 3
  /\ res.Door_Width_mm = 738 /\ res.Door_Span_mm = 2214
  /\ res.Overlap_Tolerance_mm = 50

(***************************************************************************)
(* C14.  Whenever the Issue returned for a valid row is OK, in either door *)
(* system and with any top liner option, the height components fill the    *)
(* opening exactly: 36 (bottom liners) + 54 (trackset tolerance) + the     *)
(* dropdown + the door height = Height_mm, and the door height is above 0. *)
(***************************************************************************)
C14_OkFillsTheHeight ==
  (Calculated /\ ValidRow(row) /\ res.Issue = ISSUE_OK) =>
    /\ 36 + 54 + res.Dropdown_Height_mm + res.Door_Height_mm = row.Height_mm
    /\ res.Door_Height_mm > 0

\* an OK bespoke opening that needs a dropdown: 36 + 54 + 79 + 2431 = 2600
C14_Witness ==
  /\ Calculated /\ ValidRow(row) /\ IsBespokeRow
  /\ res.Issue = ISSUE_OK
  /\ row.Height_mm = 2600
  /\ res.Dropdown_Height_mm > 0
  /\ res.Door_Height_mm = MAX_DOOR_HEIGHT

QLe(a, b) == QMinus(a, b)[1] <= 0

C15_DoorsBelowTheDropdown ==
  (Drawn /\ ValidRow(row)) =>
    /\ \A k \in 1..Len(layout.doors) :
         QLe(QPlus(layout.doors[k].y, layout.doors[k].h),
             QMinus(QInt(1), layout.dropdown_rel))
    /\ 36 + res.Door_Height_mm + res.Dropdown_Height_mm <= row.Height_mm

====
